---- MODULE Spec2Model ----
(***************************************************************************)
(* Model of the bot-runner HTTP service in main.py: the /connect and       *)
(* /direct handlers and the provisioning call start_bot they share, the    *)
(* /status/{pid} handler over the bot_procs registry, and the lifespan     *)
(* shutdown path with cleanup().                                           *)
(***************************************************************************)
EXTENDS Integers, Sequences, FiniteSets, TLC

\* ------------------------------------------------------------------ bounds
\* Number of inbound /connect and /direct requests the model follows.
MaxReqs == 2
\* Process ids range over 1..MaxPid.
MaxPid == 2
\* Longest room URL (in characters) an upstream reply carries.
MaxUrlLen == 1

Reqs == 1..MaxReqs
Pids == 1..MaxPid

\* ------------------------------------------------------------ text helpers
\* Text is a sequence of one-character (or literal-fragment) strings.
Digit(d) ==
    CASE d = 0 -> "0" [] d = 1 -> "1" [] d = 2 -> "2" [] d = 3 -> "3"
      [] d = 4 -> "4" [] d = 5 -> "5" [] d = 6 -> "6" [] d = 7 -> "7"
      [] d = 8 -> "8" [] d = 9 -> "9"

\* The decimal rendering an f-string gives a non-negative int.
RECURSIVE Str(_)
Str(n) == IF n < 10 THEN <<Digit(n)>> ELSE Append(Str(n \div 10), Digit(n % 10))

\* ---------------------------------------------------- RedirectResponse URL
\* Characters urllib's quote never escapes.
AlwaysSafe == {"a", "b", "c", "d", "e", "f", "g", "h", "i", "j", "k", "l", "m", "n", "o", "p", "q", "r", "s", "t", "u", "v", "w", "x", "y", "z", "A", "B", "C", "D", "E", "F", "G", "H", "I", "J", "K", "L", "M", "N", "O", "P", "Q", "R", "S", "T", "U", "V", "W", "X", "Y", "Z", "0", "1", "2", "3", "4", "5", "6", "7", "8", "9", "_", ".", "-", "~"}
\* The safe= argument RedirectResponse hands to quote.
RedirectSafe == {":", "/", "%", "#", "?", "=", "@", "[", "]", "!", "$", "&", "'", "(", ")", "*", "+", ",", ";"}

\* Percent-encoding of the characters of the model's alphabet that need it.
PercentEncode(c) ==
    CASE c = " "  -> <<"%", "2", "0">>
      [] c = "<"  -> <<"%", "3", "C">>
      [] c = ">"  -> <<"%", "3", "E">>
      [] c = "{"  -> <<"%", "7", "B">>

\* quote with "+" for a space (urllib's quote_plus): what a form encoder does.
RECURSIVE quote_plus(_)
quote_plus(url) ==
    IF url = <<>> THEN <<>>
    ELSE (IF Head(url) \in AlwaysSafe \cup RedirectSafe THEN <<Head(url)>>
          ELSE IF Head(url) = " " THEN <<"+">>
          ELSE PercentEncode(Head(url)))
         \o quote_plus(Tail(url))

\* quote(str(url), safe=":/%#?=@[]!$&'()*+,;")
RECURSIVE quote(_)
quote(url) ==
    IF url = <<>> THEN <<>>
    ELSE (IF Head(url) \in AlwaysSafe \cup RedirectSafe THEN <<Head(url)>>
          ELSE PercentEncode(Head(url)))
         \o quote(Tail(url))

\* -------------------------------------------------------- upstream replies
UrlChars == {"r", " "}
Urls == UNION {[1..n -> UrlChars] : n \in 1..MaxUrlLen}
Tokens == {"abc123", "tok2"}
Fields == {"dailyRoom", "dailyToken"}
\* Placeholders of record fields that hold no value.
NoUrl == <<>>
NoToken == ""

\* A reply whose body r.json() parses to a dict with the keys in `keys`.
JsonReply(status, keys, room, token) ==
    [status |-> status, kind |-> "json", keys |-> keys,
     dailyRoom |-> IF "dailyRoom" \in keys THEN room ELSE NoUrl,
     dailyToken |-> IF "dailyToken" \in keys THEN token ELSE NoToken,
     text |-> "{json}"]
\* A reply whose body is plain text (r.json() raises on it).
TextReply(status, text) ==
    [status |-> status, kind |-> "text", keys |-> {},
     dailyRoom |-> NoUrl, dailyToken |-> NoToken, text |-> text]
NoReply == TextReply(0, "")

SuccessStatuses == {200, 201}
FullReplies ==
    {JsonReply(s, Fields, u, t) : s \in SuccessStatuses, u \in Urls, t \in Tokens}
PartialReplies ==
    {JsonReply(s, k, <<"r">>, "abc123") : s \in SuccessStatuses, k \in (SUBSET Fields) \ {Fields}}
ErrorReplies ==
    {TextReply(200, "ok"), TextReply(401, "unauthorized"), TextReply(500, "upstream error")}
\* Every reply the provisioning endpoint may give.
Upstream == FullReplies \cup PartialReplies \cup ErrorReplies
\* The replies followed when the whole service (registry, shutdown) is explored.
CoreUpstream ==
    { JsonReply(200, Fields, <<"r">>, "abc123"), JsonReply(200, Fields, <<" ">>, "tok2"),
      JsonReply(200, {"dailyRoom"}, <<"r">>, "abc123"), TextReply(401, "unauthorized") }

\* ------------------------------------------------------------- start_bot
Raise(exc) == [ok |-> FALSE, room_url |-> NoUrl, token |-> NoToken, exc |-> exc]

\* start_bot reading absent keys as empty values (data.get(key, "")).
start_bot_defaulted(up) ==
    IF up.status # 200
    THEN Raise(<<"Unable to create room (status: ">> \o Str(up.status) \o <<"): ", up.text>>)
    ELSE [ok |-> TRUE, room_url |-> up.dailyRoom, token |-> up.dailyToken, exc |-> <<>>]

\* The outcome of start_bot once the POST has been answered with `up`:
\* the (room_url, token) pair it returns, or the exception it raises.
start_bot(up) ==
    IF up.status # 200
    THEN Raise(<<"Unable to create room (status: ">> \o Str(up.status) \o <<"): ", up.text>>)
    ELSE IF up.kind # "json" THEN Raise(<<"ContentTypeError">>)
    ELSE IF "dailyRoom" \notin up.keys THEN Raise(<<"KeyError: ", "dailyRoom">>)
    ELSE IF "dailyToken" \notin up.keys THEN Raise(<<"KeyError: ", "dailyToken">>)
    ELSE [ok |-> TRUE, room_url |-> up.dailyRoom, token |-> up.dailyToken, exc |-> <<>>]

\* ------------------------------------------------------------- responses
\* An HTTP response: status, Location header, JSON content (a record) or text.
NoResponse == [status_code |-> 0, location |-> <<>>, json |-> [none |-> TRUE], text |-> <<>>]
JSONResponse(code, content) ==
    [status_code |-> code, location |-> <<>>, json |-> content, text |-> <<>>]
\* What the app answers when a handler lets an exception other than
\* HTTPException escape: the message stays in the server log.
ServerErrorResponse(exc) ==
    [status_code |-> 500, location |-> <<>>, json |-> [none |-> TRUE],
     text |-> <<"Internal Server Error">>]
\* HTTPException(status_code, detail)
HTTPException(code, detail) == JSONResponse(code, [detail |-> detail])
RedirectResponse(url) ==
    [status_code |-> 307, location |-> quote(url), json |-> [none |-> TRUE], text |-> <<>>]

\* /connect percent-encoding the room URL it hands back.
rtvi_connect_quoted(out) ==
    IF out.ok THEN JSONResponse(200, [room_url |-> quote(out.room_url), token |-> out.token])
    ELSE ServerErrorResponse(out.exc)

\* POST /connect, given start_bot's outcome.
rtvi_connect(out) ==
    IF out.ok THEN JSONResponse(200, [room_url |-> out.room_url, token |-> out.token])
    ELSE ServerErrorResponse(out.exc)

\* GET /direct, given start_bot's outcome.
start_agent(out) ==
    IF out.ok THEN RedirectResponse(out.room_url) ELSE ServerErrorResponse(out.exc)

\* ------------------------------------------------------------------ state
VARIABLES
    pc,              \* per request: "idle", "awaiting" (suspended at the POST), "done"
    endpoint,        \* per request: "none", "connect" or "direct"
    client_session,  \* per request: the ClientSession start_bot creates
    conn,            \* per request: the response context of the POST
    posts,           \* per request: outbound POSTs issued
    upstream,        \* per request: the reply its POST received
    response,        \* per request: the HTTP response sent to the caller
    sent,            \* per request: responses sent
    lifespanPc,      \* "serving", "cleanup", "waiting", "done", "failed"
    aiohttp_session, \* the session lifespan() creates: "open" or "closed"
    cleanupIdx,      \* position of cleanup()'s loop in bot_procs
    cleanupRuns,     \* calls of cleanup()
    bot_procs,       \* the registry, in insertion order: entries [pid, room_url]
    procState,       \* per pid: "unspawned", "alive", "exited"
    signalled,       \* per pid: terminate() has been called on its handle
    statusResp       \* per pid: the last response of GET /status/{pid}

reqVars == <<pc, endpoint, client_session, conn, posts, upstream, response, sent>>
lifeVars == <<lifespanPc, aiohttp_session, cleanupIdx, cleanupRuns>>
regVars == <<bot_procs, procState, signalled>>
vars == <<reqVars, lifeVars, regVars, statusResp>>

\* The state once lifespan() has reached its yield: the shared session is
\* open, the registry is empty, no request has arrived.
Init ==
    /\ pc = [r \in Reqs |-> "idle"]
    /\ endpoint = [r \in Reqs |-> "none"]
    /\ client_session = [r \in Reqs |-> "none"]
    /\ conn = [r \in Reqs |-> "none"]
    /\ posts = [r \in Reqs |-> 0]
    /\ upstream = [r \in Reqs |-> NoReply]
    /\ response = [r \in Reqs |-> NoResponse]
    /\ sent = [r \in Reqs |-> 0]
    /\ lifespanPc = "serving"
    /\ aiohttp_session = "open"
    /\ cleanupIdx = 0
    /\ cleanupRuns = 0
    /\ bot_procs = <<>>
    /\ procState = [p \in Pids |-> "unspawned"]
    /\ signalled = [p \in Pids |-> FALSE]
    /\ statusResp = [p \in Pids |-> NoResponse]

\* ------------------------------------------------- /connect and /direct
\* A handler calls start_bot, which opens a ClientSession, issues the POST
\* and suspends until the reply arrives.
start_bot_call(r, ep) ==
    /\ lifespanPc = "serving"
    /\ pc[r] = "idle"
    /\ pc' = [pc EXCEPT ![r] = "awaiting"]
    /\ endpoint' = [endpoint EXCEPT ![r] = ep]
    /\ client_session' = [client_session EXCEPT ![r] = "open"]
    /\ conn' = [conn EXCEPT ![r] = "borrowed"]
    /\ posts' = [posts EXCEPT ![r] = @ + 1]
    /\ UNCHANGED <<upstream, response, sent, lifeVars, regVars, statusResp>>

rtvi_connect_call(r) == start_bot_call(r, "connect")
start_agent_call(r) == start_bot_call(r, "direct")

\* start_bot posting once more when the reply made the handler fail.
start_bot_resume_retrying(r, up, resp) ==
    /\ pc[r] = "awaiting"
    /\ IF resp.status_code = 500 /\ posts[r] < 2
       THEN /\ posts' = [posts EXCEPT ![r] = @ + 1]
            /\ UNCHANGED <<pc, conn, upstream, response, sent>>
       ELSE /\ upstream' = [upstream EXCEPT ![r] = up]
            /\ conn' = [conn EXCEPT ![r] = "released"]
            /\ response' = [response EXCEPT ![r] = resp]
            /\ sent' = [sent EXCEPT ![r] = @ + 1]
            /\ pc' = [pc EXCEPT ![r] = "done"]
            /\ UNCHANGED posts
    /\ UNCHANGED <<endpoint, client_session, lifeVars, regVars, statusResp>>

\* The handlers keeping the last result in one place shared by all requests.
start_bot_resume_shared(r, up, resp) ==
    /\ pc[r] = "awaiting"
    /\ upstream' = [upstream EXCEPT ![r] = up]
    /\ conn' = [conn EXCEPT ![r] = "released"]
    /\ response' = [response EXCEPT ![r] =
            IF \E q \in Reqs \ {r} : pc[q] = "done" /\ endpoint[q] = endpoint[r]
            THEN response[CHOOSE q \in Reqs \ {r} : pc[q] = "done" /\ endpoint[q] = endpoint[r]]
            ELSE resp]
    /\ sent' = [sent EXCEPT ![r] = @ + 1]
    /\ pc' = [pc EXCEPT ![r] = "done"]
    /\ UNCHANGED <<endpoint, client_session, posts, lifeVars, regVars, statusResp>>

\* The POST is answered with `up`: the async-with block runs and exits
\* (releasing the response), start_bot returns or raises, and the handler's
\* response `resp` goes out.  The ClientSession is not closed anywhere.
start_bot_resume(r, up, resp) ==
    /\ pc[r] = "awaiting"
    /\ upstream' = [upstream EXCEPT ![r] = up]
    /\ conn' = [conn EXCEPT ![r] = "released"]
    /\ response' = [response EXCEPT ![r] = resp]
    /\ sent' = [sent EXCEPT ![r] = @ + 1]
    /\ pc' = [pc EXCEPT ![r] = "done"]
    /\ UNCHANGED <<endpoint, client_session, posts, lifeVars, regVars, statusResp>>

rtvi_connect_return(r, up) ==
    /\ endpoint[r] = "connect"
    /\ start_bot_resume(r, up, rtvi_connect(start_bot(up)))

start_agent_return(r, up) ==
    /\ endpoint[r] = "direct"
    /\ start_bot_resume(r, up, start_agent(start_bot(up)))

NextHttp ==
    \/ \E r \in Reqs : rtvi_connect_call(r)
    \/ \E r \in Reqs : start_agent_call(r)
    \/ \E r \in Reqs, up \in Upstream : rtvi_connect_return(r, up)
    \/ \E r \in Reqs, up \in Upstream : start_agent_return(r, up)

\* The request handlers alone, over every upstream reply.
SpecHttp == Init /\ [][NextHttp]_vars

\* ------------------------------------------------------------- registry
RegisteredPids == {bot_procs[i].pid : i \in 1..Len(bot_procs)}
\* What dict.get returns for a key the dict does not hold.
None == [pid |-> 0, room_url |-> NoUrl]
\* bot_procs.get(pid)
bot_procs_get(pid) ==
    IF pid \in RegisteredPids
    THEN bot_procs[CHOOSE i \in 1..Len(bot_procs) : bot_procs[i].pid = pid]
    ELSE None

\* The room URL recorded with a spawned worker.
RegistryUrls == {<<"r">>}

\* The spawning path records a new worker process under its pid; a pid
\* already present is refused.  Pids are handed out in increasing order.
Register(pid, url) ==
    /\ lifespanPc = "serving"
    /\ pid \notin RegisteredPids
    /\ pid = Len(bot_procs) + 1
    /\ procState[pid] = "unspawned"
    /\ bot_procs' = Append(bot_procs, [pid |-> pid, room_url |-> url])
    /\ procState' = [procState EXCEPT ![pid] = "alive"]
    /\ UNCHANGED <<reqVars, lifeVars, signalled, statusResp>>

\* A worker process exits, of its own accord or after terminate().
ProcExit(pid) ==
    /\ procState[pid] = "alive"
    /\ procState' = [procState EXCEPT ![pid] = "exited"]
    /\ UNCHANGED <<reqVars, lifeVars, bot_procs, signalled, statusResp>>

\* ------------------------------------------------------- /status/{pid}
\* get_status answering 200 "finished" for a pid it does not find.
StatusResponseNo404(pid) ==
    JSONResponse(200, [bot_id |-> pid,
        status |-> IF pid \in RegisteredPids /\ procState[pid] = "alive"
                   THEN "running" ELSE "finished"])

\* get_status testing poll() the wrong way round.
StatusResponseInverted(pid) ==
    IF bot_procs_get(pid) = None
    THEN HTTPException(404, <<"Bot with process id: ">> \o Str(pid) \o <<" not found">>)
    ELSE JSONResponse(200, [bot_id |-> pid,
            status |-> IF procState[bot_procs_get(pid).pid] # "alive"
                       THEN "running" ELSE "finished"])

\* The response of get_status(pid) in the current state.
StatusResponse(pid) ==
    IF bot_procs_get(pid) = None
    THEN HTTPException(404, <<"Bot with process id: ">> \o Str(pid) \o <<" not found">>)
    ELSE JSONResponse(200, [bot_id |-> pid,
            status |-> IF procState[bot_procs_get(pid).pid] = "alive"
                       THEN "running" ELSE "finished"])

get_status(pid) ==
    /\ lifespanPc = "serving"
    /\ statusResp' = [statusResp EXCEPT ![pid] = StatusResponse(pid)]
    /\ UNCHANGED <<reqVars, lifeVars, regVars>>

\* ------------------------------------------------------------- shutdown
\* lifespan() past its yield, once request handling has stopped:
\* await aiohttp_session.close(), then cleanup().  When close() raises,
\* lifespan() ends there.
lifespan_shutdown(closed) ==
    /\ lifespanPc = "serving"
    /\ \A r \in Reqs : pc[r] # "awaiting"
    /\ IF closed
       THEN /\ aiohttp_session' = "closed"
            /\ lifespanPc' = "cleanup"
            /\ cleanupIdx' = 1
            /\ cleanupRuns' = cleanupRuns + 1
       ELSE /\ lifespanPc' = "failed"
            /\ UNCHANGED <<aiohttp_session, cleanupIdx, cleanupRuns>>
    /\ UNCHANGED <<reqVars, regVars, statusResp>>

\* cleanup(): proc.terminate() on the entry the loop is at ...
cleanup_terminate ==
    /\ lifespanPc = "cleanup"
    /\ cleanupIdx <= Len(bot_procs)
    /\ signalled' = [signalled EXCEPT ![bot_procs[cleanupIdx].pid] = TRUE]
    /\ lifespanPc' = "waiting"
    /\ UNCHANGED <<reqVars, aiohttp_session, cleanupIdx, cleanupRuns, bot_procs,
                   procState, statusResp>>

\* ... then proc.wait(), which returns once that process has exited.
cleanup_wait ==
    /\ lifespanPc = "waiting"
    /\ procState[bot_procs[cleanupIdx].pid] = "exited"
    /\ cleanupIdx' = cleanupIdx + 1
    /\ lifespanPc' = "cleanup"
    /\ UNCHANGED <<reqVars, aiohttp_session, cleanupRuns, regVars, statusResp>>

\* The loop is through: cleanup() and lifespan() return.
cleanup_return ==
    /\ lifespanPc = "cleanup"
    /\ cleanupIdx > Len(bot_procs)
    /\ lifespanPc' = "done"
    /\ UNCHANGED <<reqVars, aiohttp_session, cleanupIdx, cleanupRuns, regVars, statusResp>>

Next ==
    \/ \E r \in Reqs : rtvi_connect_call(r)
    \/ \E r \in Reqs : start_agent_call(r)
    \/ \E r \in Reqs, up \in CoreUpstream : rtvi_connect_return(r, up)
    \/ \E r \in Reqs, up \in CoreUpstream : start_agent_return(r, up)
    \/ \E p \in Pids, u \in RegistryUrls : Register(p, u)
    \/ \E p \in Pids : ProcExit(p)
    \/ \E p \in Pids : get_status(p)
    \/ \E closed \in BOOLEAN : lifespan_shutdown(closed)
    \/ cleanup_terminate
    \/ cleanup_wait
    \/ cleanup_return

\* The whole service.
Spec == Init /\ [][Next]_vars

\* =================================================================== claims
Done(r) == pc[r] = "done"
Http2xx == 200..299
\* The reply carries both fields in a body that parses as JSON.
CarriesSession(up) == up.kind = "json" /\ Fields \subseteq up.keys

\* C1 as stated: whenever the provisioning call returns any HTTP success
\* status with a body carrying dailyRoom and dailyToken, /connect answers 200
\* with exactly the fields room_url and token, equal to those two values.
C1_AnySuccessStatus ==
    \A r \in Reqs :
        (Done(r) /\ endpoint[r] = "connect" /\ upstream[r].status \in Http2xx
            /\ CarriesSession(upstream[r]))
        => /\ response[r].status_code = 200
           /\ DOMAIN response[r].json = {"room_url", "token"}
           /\ response[r].json.room_url = upstream[r].dailyRoom
           /\ response[r].json.token = upstream[r].dailyToken

\* C1 amended: whenever the provisioning call returns HTTP status 200 with a
\* JSON body carrying dailyRoom and dailyToken, /connect answers 200 with
\* exactly the fields room_url and token, equal to those two values, unchanged.
C1_Status200 ==
    \A r \in Reqs :
        (Done(r) /\ endpoint[r] = "connect" /\ upstream[r].status = 200
            /\ CarriesSession(upstream[r]))
        => /\ response[r].status_code = 200
           /\ DOMAIN response[r].json = {"room_url", "token"}
           /\ response[r].json.room_url = upstream[r].dailyRoom
           /\ response[r].json.token = upstream[r].dailyToken

\* A /connect request answered 200 whose room URL holds a space.
C1_Witness ==
    \E r \in Reqs :
        /\ Done(r) /\ endpoint[r] = "connect" /\ upstream[r].status = 200
        /\ CarriesSession(upstream[r])
        /\ \E i \in 1..Len(upstream[r].dailyRoom) : upstream[r].dailyRoom[i] = " "
        /\ response[r].status_code = 200

\* The characters RedirectResponse leaves alone, spelled out for the claim.
C2_UrlSafe(c) == c \in AlwaysSafe \/ c \in RedirectSafe
\* The room URL with each character that is not URL-safe written as its
\* %XX escape (a space is %20) and every other character kept.
RECURSIVE C2_Escaped(_)
C2_Escaped(url) ==
    IF url = <<>> THEN <<>>
    ELSE (IF C2_UrlSafe(Head(url)) THEN <<Head(url)>>
          ELSE CASE Head(url) = " " -> <<"%", "2", "0">>) \o C2_Escaped(Tail(url))

\* C2 as stated: when the provisioning call succeeds, /direct answers with a
\* 3xx redirect whose target equals the returned session URL exactly.
C2_ExactTarget ==
    \A r \in Reqs :
        (Done(r) /\ endpoint[r] = "direct" /\ upstream[r].status = 200
            /\ CarriesSession(upstream[r]))
        => /\ response[r].status_code \in 300..399
           /\ response[r].location = upstream[r].dailyRoom

\* C2 amended: when the provisioning call succeeds, /direct answers with a
\* 3xx redirect whose target is the session URL with every character that is
\* not URL-safe percent-encoded, so it equals the session URL exactly when
\* that URL holds URL-safe characters only; the response carries no token.
C2_EscapedTarget ==
    \A r \in Reqs :
        (Done(r) /\ endpoint[r] = "direct" /\ upstream[r].status = 200
            /\ CarriesSession(upstream[r]))
        => /\ response[r].status_code \in 300..399
           /\ response[r].location = C2_Escaped(upstream[r].dailyRoom)
           /\ ((\A i \in 1..Len(upstream[r].dailyRoom) : C2_UrlSafe(upstream[r].dailyRoom[i]))
                 => response[r].location = upstream[r].dailyRoom)
           /\ response[r].json = [none |-> TRUE]
           /\ response[r].text = <<>>

\* A /direct request redirected for a room URL that holds a space.
C2_Witness ==
    \E r \in Reqs :
        /\ Done(r) /\ endpoint[r] = "direct" /\ upstream[r].status = 200
        /\ CarriesSession(upstream[r])
        /\ \E i \in 1..Len(upstream[r].dailyRoom) : upstream[r].dailyRoom[i] = " "
        /\ response[r].status_code = 307

\* s occurs in t as a contiguous run.
Contains(t, s) ==
    \E i \in 0..(Len(t) - Len(s)) : \A j \in 1..Len(s) : t[i + j] = s[j]

\* The text of an error response: the detail of an HTTPException, else the body.
ErrorBody(resp) ==
    IF "detail" \in DOMAIN resp.json THEN resp.json.detail ELSE resp.text

\* C3: for every upstream reply with a non-2xx status, /connect and /direct
\* answer 500 and the error body contains the upstream status code.
C3_ErrorBodyHasStatus ==
    \A r \in Reqs :
        (Done(r) /\ upstream[r].status \notin Http2xx)
        => /\ response[r].status_code = 500
           /\ Contains(ErrorBody(response[r]), Str(upstream[r].status))

\* C4: when the upstream reply has a success status but its body lacks
\* dailyRoom or dailyToken or does not parse, /connect and /direct answer 500:
\* no 200, no redirect, no room_url or token in the response.
C4_MalformedIs500 ==
    \A r \in Reqs :
        (Done(r) /\ upstream[r].status \in Http2xx /\ ~CarriesSession(upstream[r]))
        => /\ response[r].status_code = 500
           /\ response[r].location = <<>>
           /\ DOMAIN response[r].json \cap {"room_url", "token"} = {}

\* Both endpoints have answered 500 to a status-200 reply without a token.
C4_Witness ==
    \E r, q \in Reqs :
        /\ Done(r) /\ endpoint[r] = "direct" /\ Done(q) /\ endpoint[q] = "connect"
        /\ upstream[r].status = 200 /\ upstream[r].keys = {"dailyRoom"}
        /\ upstream[q].status = 200 /\ upstream[q].kind = "text"
        /\ response[r].status_code = 500 /\ response[q].status_code = 500

\* C5: GET /status/{id} for an id with no registry entry answers 404 with a
\* message naming the id, never 200; an id with an entry never gets a 404.
C5_UnknownIs404 ==
    [][\A p \in Pids :
          /\ statusResp'[p] # statusResp[p] =>
                IF p \in RegisteredPids
                THEN statusResp'[p].status_code # 404
                ELSE /\ statusResp'[p].status_code = 404
                     /\ Contains(ErrorBody(statusResp'[p]), Str(p))
          /\ statusResp'[p].status_code = 200 => p \in RegisteredPids']_vars

\* One id has been answered 404 while another, registered, was answered 200.
C5_Witness ==
    \E p, q \in Pids :
        /\ p \notin RegisteredPids /\ q \in RegisteredPids
        /\ statusResp[p].status_code = 404
        /\ statusResp[q].status_code = 200

\* C6: for a registered id GET /status/{id} answers 200 with "running" while
\* the process is alive and "finished" once it has exited; the query changes
\* neither the registry nor any process handle; and once "finished" has been
\* reported for an id, "running" is never reported for it again.
C6_StatusPureRead ==
    [][\A p \in Pids :
          /\ statusResp'[p] # statusResp[p] =>
                /\ UNCHANGED <<bot_procs, procState, signalled>>
                /\ p \in RegisteredPids =>
                      /\ statusResp'[p].status_code = 200
                      /\ statusResp'[p].json.bot_id = p
                      /\ statusResp'[p].json.status =
                            IF procState[p] = "alive" THEN "running" ELSE "finished"
          /\ (statusResp[p].status_code = 200 /\ statusResp[p].json.status = "finished")
                => (statusResp'[p].status_code = 200
                        /\ statusResp'[p].json.status = "finished")]_vars

\* One process has been reported finished and another running.
C6_Witness ==
    \E p, q \in Pids :
        /\ statusResp[p].status_code = 200 /\ statusResp[p].json.status = "finished"
        /\ statusResp[q].status_code = 200 /\ statusResp[q].json.status = "running"
        /\ procState[q] = "alive"

\* C7: once the requests have completed, no client session or connection
\* opened by a provisioning call is still open.
C7_NoOpenSession ==
    \A r \in Reqs :
        Done(r) => (client_session[r] # "open" /\ conn[r] # "borrowed")

\* C8: on shutdown the shared client is closed and cleanup runs exactly once;
\* when cleanup has returned every tracked process has been signalled and has
\* exited; and no tracked process is left unsignalled while cleanup waits for
\* an earlier one that has not exited, or because closing the client failed.
C8_AllSignalled ==
    /\ cleanupRuns <= 1
    /\ lifespanPc = "done" =>
          /\ aiohttp_session = "closed" /\ cleanupRuns = 1
          /\ \A p \in RegisteredPids : signalled[p] /\ procState[p] = "exited"
    /\ (lifespanPc = "waiting" /\ procState[bot_procs[cleanupIdx].pid] # "exited") =>
          \A p \in RegisteredPids : signalled[p]
    /\ lifespanPc = "failed" => \A p \in RegisteredPids : signalled[p]

RECURSIVE SumPosts(_)
SumPosts(S) ==
    IF S = {} THEN 0 ELSE LET r == CHOOSE x \in S : TRUE IN posts[r] + SumPosts(S \ {r})

\* C9: each /connect or /direct request issues exactly one outbound POST and
\* then sends exactly one response (200, redirect or 500); nothing is retried,
\* so N completed requests have issued exactly N POSTs.
C9_OnePostOneResponse ==
    /\ \A r \in Reqs :
          /\ posts[r] = (IF pc[r] = "idle" THEN 0 ELSE 1)
          /\ sent[r] = (IF Done(r) THEN 1 ELSE 0)
          /\ Done(r) => response[r].status_code \in {200, 307, 500}
    /\ SumPosts({r \in Reqs : Done(r)}) = Cardinality({r \in Reqs : Done(r)})

\* Every request has completed, one of them on a failed upstream call.
C9_Witness ==
    /\ \A r \in Reqs : Done(r)
    /\ \E r \in Reqs : upstream[r].status = 401 /\ response[r].status_code = 500
    /\ \E r \in Reqs : response[r].status_code = 200

\* The response of r is the one its own upstream reply calls for.
C10_OwnResult(r) ==
    IF upstream[r].status = 200 /\ CarriesSession(upstream[r])
    THEN IF endpoint[r] = "connect"
         THEN /\ response[r].status_code = 200
              /\ response[r].json.room_url = upstream[r].dailyRoom
              /\ response[r].json.token = upstream[r].dailyToken
         ELSE /\ response[r].status_code \in 300..399
              /\ response[r].location = C2_Escaped(upstream[r].dailyRoom)
    ELSE response[r].status_code = 500

\* C10: under any interleaving of /connect, /direct and /status requests each
\* response carries the session URL and token (or the failure) of the
\* request's own outbound call, and no handler adds, removes or changes a
\* registry entry.
C10_Isolation ==
    /\ [](\A r \in Reqs : Done(r) => C10_OwnResult(r))
    /\ [][(pc' # pc \/ response' # response \/ statusResp' # statusResp)
            => UNCHANGED <<bot_procs, procState, signalled>>]_vars

\* Two requests of the same endpoint have completed with different session
\* URLs while a process is registered and its status has been served.
C10_Witness ==
    /\ \E r, q \in Reqs :
          /\ r # q /\ Done(r) /\ Done(q) /\ endpoint[r] = endpoint[q]
          /\ response[r].status_code \in {200, 307}
          /\ response[q].status_code \in {200, 307}
          /\ upstream[r].dailyRoom # upstream[q].dailyRoom
    /\ \E p \in Pids : p \in RegisteredPids /\ statusResp[p].status_code = 200
====
